---- MODULE Spec2Model ----
(***************************************************************************)
(* Control-flow evaluation of crates/typst/src/eval/flow.rs: conditionals, *)
(* while and for loops, break / continue / return, and the two syntactic   *)
(* predicates is_invariant and can_diverge.                                *)
(*                                                                         *)
(* The recursive evaluator is modelled as a stack machine: every call of   *)
(* `eval` is a frame, every point at which a handler of flow.rs calls the  *)
(* evaluator for a sub-expression splits the handler into two steps, and   *)
(* the result of the callee is handed over in `ret`.                       *)
(***************************************************************************)
EXTENDS Integers, Sequences, FiniteSets, TLC

VARIABLES
    prog,       \* the syntax tree under evaluation (never changes)
    vm_flow,    \* vm.flow: Option<FlowEvent>
    vm_scopes,  \* vm.scopes: the stack of binding scopes (set of names each)
    stack,      \* the frames of the active eval() calls, innermost last
    ret,        \* the SourceResult<Value> of the call that returned last
    log         \* history: the sub-evaluations started so far, in order

vars == <<prog, vm_flow, vm_scopes, stack, ret, log>>

----------------------------------------------------------------------------
(* Runtime values. A value is its type and a payload: a string is the      *)
(* sequence of its code points, an array the sequence of its elements, a   *)
(* dictionary the sequence of its (key, value) pairs.                      *)

Val(ty, v) == [ty |-> ty, v |-> v]
NoneV == Val("none", <<>>)
BoolV(b) == Val("bool", <<b>>)
TrueV == BoolV(TRUE)
FalseV == BoolV(FALSE)
IntV(n) == Val("int", <<n>>)
StrV(s) == Val("str", s)
ArrayV(s) == Val("array", s)
DictV(s) == Val("dict", s)

(* Results: Ok(value) or Err(diagnostic with message and span).            *)
Ok(v) == [ok |-> TRUE, val |-> v, msg |-> <<>>, span |-> <<>>]
Err(span, msg) == [ok |-> FALSE, val |-> NoneV, msg |-> msg, span |-> span]
NoRet == [ok |-> TRUE, val |-> Val("pending", <<>>), msg |-> <<>>, span |-> <<>>]

(* FlowEvent, lines 12-22; NoFlow is Option::None of vm.flow. The operand  *)
(* of Return is an Option<Value>: <<>> for None, <<v>> for Some(v).        *)
NoFlow == [kind |-> "None", span |-> <<>>, value |-> <<>>]
Break(span) == [kind |-> "Break", span |-> span, value |-> <<>>]
Continue(span) == [kind |-> "Continue", span |-> span, value |-> <<>>]
Return(span, value) == [kind |-> "Return", span |-> span, value |-> value]

(* Mutant: break and continue share the diagnostic of continue.            *)
forbidden_BreakAsContinue(flow) ==
    CASE flow.kind = "Return" ->
            Err(flow.span, <<"cannot return outside of function">>)
      [] OTHER -> Err(flow.span, <<"cannot continue outside of loop">>)

(* FlowEvent::forbidden, lines 24-39.                                      *)
forbidden(flow) ==
    CASE flow.kind = "Break" ->
            Err(flow.span, <<"cannot break outside of loop">>)
      [] flow.kind = "Continue" ->
            Err(flow.span, <<"cannot continue outside of loop">>)
      [] flow.kind = "Return" ->
            Err(flow.span, <<"cannot return outside of function">>)

(* The maximum number of loop iterations (10_000 in the source), scaled    *)
(* down so that the cap is reached within the model.                       *)
MAX_ITERATIONS == 2

----------------------------------------------------------------------------
(* Syntax. A node is its kind, its text and its children; the span of a    *)
(* node is its path from the root (the child indices), which is unique.    *)
(* Keyword tokens are kept where the code looks at them (Break, Return,    *)
(* Continue); other tokens are childless leaves that neither predicate     *)
(* below distinguishes from a literal and are left out.                    *)

N(kind, val, ch) == [kind |-> kind, val |-> val, ch |-> ch]
Tok(kind) == N(kind, "", <<>>)
BoolL(b) == N("Bool", b, <<>>)
StrL(s) == N("Str", s, <<>>)
IntL(n) == N("Int", n, <<>>)
NoneL == N("None", "", <<>>)
Ident(x) == N("Ident", x, <<>>)
MathIdent(x) == N("MathIdent", x, <<>>)
FieldAccess(target, field) == N("FieldAccess", "", <<target, Ident(field)>>)
FuncCall(callee, args) == N("FuncCall", "", <<callee, N("Args", "", args)>>)
CodeBlock(exprs) == N("CodeBlock", "", exprs)
LoopBreak == N("LoopBreak", "", <<Tok("Break")>>)
LoopContinue == N("LoopContinue", "", <<Tok("Continue")>>)
FuncReturn == N("FuncReturn", "", <<Tok("Return")>>)
FuncReturnOf(body) == N("FuncReturn", "", <<Tok("Return"), body>>)
Conditional(condition, if_body) == N("Conditional", "", <<condition, if_body>>)
ConditionalElse(condition, if_body, else_body) ==
    N("Conditional", "", <<condition, if_body, else_body>>)
WhileLoop(condition, body) == N("WhileLoop", "", <<condition, body>>)
ForLoop(pattern, iter, body) == N("ForLoop", "", <<pattern, iter, body>>)
Destructuring(names) ==
    N("Destructuring", "", [k \in 1..Len(names) |-> Ident(names[k])])

(* Mutant: a field access is treated like any other node, its field name   *)
(* included.                                                               *)
RECURSIVE is_invariant_FieldChecked(_)
is_invariant_FieldChecked(expr) ==
    CASE expr.kind = "Ident" -> FALSE
      [] expr.kind = "MathIdent" -> FALSE
      [] expr.kind = "FuncCall" ->
            /\ is_invariant_FieldChecked(expr.ch[1])
            /\ is_invariant_FieldChecked(expr.ch[2])
      [] OTHER ->
            \A k \in 1..Len(expr.ch) : is_invariant_FieldChecked(expr.ch[k])

(* is_invariant, lines 203-217.                                            *)
RECURSIVE is_invariant(_)
is_invariant(expr) ==
    CASE expr.kind = "Ident" -> FALSE
      [] expr.kind = "MathIdent" -> FALSE
      [] expr.kind = "FieldAccess" -> is_invariant(expr.ch[1])
      [] expr.kind = "FuncCall" ->
            is_invariant(expr.ch[1]) /\ is_invariant(expr.ch[2])
      [] OTHER -> \A k \in 1..Len(expr.ch) : is_invariant(expr.ch[k])

(* Mutant: continue counts like break and return.                          *)
RECURSIVE can_diverge_ContinueCounts(_)
can_diverge_ContinueCounts(expr) ==
    \/ expr.kind \in {"Break", "Return", "Continue"}
    \/ \E k \in 1..Len(expr.ch) : can_diverge_ContinueCounts(expr.ch[k])

(* can_diverge, lines 219-223.                                             *)
RECURSIVE can_diverge(_)
can_diverge(expr) ==
    \/ expr.kind \in {"Break", "Return"}
    \/ \E k \in 1..Len(expr.ch) : can_diverge(expr.ch[k])

----------------------------------------------------------------------------
(* Collaborators of flow.rs that live outside it.                          *)

(* ops::join: the identity value joined with v is v; strings and arrays    *)
(* concatenate; any other pair is incompatible.                            *)
join(lhs, rhs) ==
    IF lhs.ty = "none" THEN Ok(rhs)
    ELSE IF rhs.ty = "none" THEN Ok(lhs)
    ELSE IF lhs.ty = "str" /\ rhs.ty = "str" THEN Ok(StrV(lhs.v \o rhs.v))
    ELSE IF lhs.ty = "array" /\ rhs.ty = "array"
         THEN Ok(ArrayV(lhs.v \o rhs.v))
    ELSE Err(<<>>, <<"cannot join", lhs.ty, "with", rhs.ty>>)

(* .at(span): attach a span to a failed result.                            *)
At(r, span) == IF r.ok THEN r ELSE Err(span, r.msg)

(* Value::cast::<bool>().                                                  *)
CastBool(v) ==
    IF v.ty = "bool" THEN Ok(v)
    ELSE Err(<<>>, <<"expected boolean, found", v.ty>>)

(* str::graphemes(true): a grapheme cluster is a code point together with  *)
(* the extending code points (combining marks) that follow it.             *)
Extend == {"cm"}

RECURSIVE Graphemes(_)
Graphemes(s) ==
    IF s = <<>> THEN <<>>
    ELSE LET n == CHOOSE k \in 1..Len(s) :
                    /\ \A j \in 2..k : s[j] \in Extend
                    /\ (k = Len(s) \/ s[k + 1] \notin Extend)
         IN <<StrV(SubSeq(s, 1, n))>> \o Graphemes(SubSeq(s, n + 1, Len(s)))

(* Dict::pairs(): each pair becomes the two-element array (key, value).    *)
Pairs(d) == [k \in 1..Len(d) |-> ArrayV(<<StrV(d[k][1]), d[k][2]>>)]

(* Scopes::enter / Scopes::exit / binding a name in the innermost scope.   *)
ScopesEnter(scopes) == Append(scopes, {})
ScopesExit(scopes) == SubSeq(scopes, 1, Len(scopes) - 1)
ScopesDefine(scopes, names) ==
    [scopes EXCEPT ![Len(scopes)] = @ \cup names]

(* destructure(vm, pattern, value): a Normal pattern binds any value to    *)
(* its name; a Destructuring pattern of n names needs an array of n        *)
(* elements.                                                               *)
destructure(scopes, pattern, value) ==
    IF pattern.kind # "Destructuring"
    THEN [ok |-> TRUE, scopes |-> ScopesDefine(scopes, {pattern.val}), msg |-> <<>>]
    ELSE IF value.ty # "array"
    THEN [ok |-> FALSE, scopes |-> scopes,
          msg |-> <<"cannot destructure", value.ty>>]
    ELSE IF Len(value.v) < Len(pattern.ch)
    THEN [ok |-> FALSE, scopes |-> scopes,
          msg |-> <<"not enough elements to destructure">>]
    ELSE IF Len(value.v) > Len(pattern.ch)
    THEN [ok |-> FALSE, scopes |-> scopes,
          msg |-> <<"too many elements to destructure">>]
    ELSE [ok |-> TRUE, msg |-> <<>>,
          scopes |-> ScopesDefine(scopes,
                        {pattern.ch[k].val : k \in 1..Len(pattern.ch)})]

----------------------------------------------------------------------------
(* The evaluator's call stack.                                             *)

Top == stack[Len(stack)]
Below == SubSeq(stack, 1, Len(stack) - 1)

(* The frame of one eval() call: the node, its span, the position in the   *)
(* handler and the handler's locals (flow: the saved flow; output; i: the  *)
(* while loop's index, elsewhere the number of children evaluated; items:  *)
(* what the iteration source still holds; item: the value the for loop has *)
(* taken from it for the current pass; iter: the value of the iterable).   *)
(* vals and depth are history: the body values of the passes that went on  *)
(* to another pass, and the depth of the scope stack when a for loop was   *)
(* entered.                                                                *)
NewFrame(node, span) ==
    [node |-> node, span |-> span, pc |-> "start", flow |-> NoFlow,
     output |-> NoneV, i |-> 0, items |-> <<>>, item |-> NoneV,
     iter |-> NoneV, vals |-> <<>>, depth |-> 0]

Running(kind, pc) ==
    stack # <<>> /\ Top.node.kind = kind /\ Top.pc = pc

(* The handler, whose frame becomes f, calls eval on a node.               *)
EvalNode(f, node, span, events) ==
    /\ stack' = Below \o <<f, NewFrame(node, span)>>
    /\ ret' = NoRet
    /\ log' = log \o events

(* The handler, whose frame becomes f, calls eval on its child k.          *)
Eval(f, k, events) ==
    EvalNode(f, f.node.ch[k], Append(f.span, k), events)

(* The handler returns r to its caller.                                    *)
Finish(r) ==
    /\ stack' = Below
    /\ ret' = r
    /\ log' = log

Ev(what, span) == <<what, span>>

----------------------------------------------------------------------------
(* Signal emitters, lines 169-201.                                         *)

(* Mutant: a later break overwrites the pending signal.                    *)
SetBreak_Overwrite(flow, span) == Break(span)

(* LoopBreak::eval, lines 173-175.                                         *)
SetBreak(flow, span) == IF flow = NoFlow THEN Break(span) ELSE flow

(* LoopContinue::eval, lines 184-186.                                      *)
SetContinue(flow, span) == IF flow = NoFlow THEN Continue(span) ELSE flow

(* FuncReturn::eval, lines 196-198.                                        *)
SetReturn(flow, span, value) ==
    IF flow = NoFlow THEN Return(span, value) ELSE flow

LoopBreakEval ==
    /\ Running("LoopBreak", "start")
    /\ vm_flow' = SetBreak(vm_flow, Top.span)
    /\ stack' = Below
    /\ ret' = Ok(NoneV)
    /\ log' = Append(log, Ev("break", Top.span))
    /\ UNCHANGED <<prog, vm_scopes>>

LoopContinueEval ==
    /\ Running("LoopContinue", "start")
    /\ vm_flow' = SetContinue(vm_flow, Top.span)
    /\ stack' = Below
    /\ ret' = Ok(NoneV)
    /\ log' = Append(log, Ev("continue", Top.span))
    /\ UNCHANGED <<prog, vm_scopes>>

(* Mutant: the slot is looked at first, and with a signal pending the      *)
(* operand is not evaluated.                                               *)
FuncReturnEval_ChecksFirst ==
    /\ Running("FuncReturn", "start")
    /\ IF Len(Top.node.ch) > 1 /\ vm_flow = NoFlow
       THEN /\ Eval([Top EXCEPT !.pc = "body"], 2, <<Ev("operand", Top.span)>>)
            /\ UNCHANGED vm_flow
       ELSE /\ vm_flow' = SetReturn(vm_flow, Top.span, <<>>)
            /\ stack' = Below
            /\ ret' = Ok(NoneV)
            /\ log' = Append(log, Ev("return", Top.span))
    /\ UNCHANGED <<prog, vm_scopes>>

(* FuncReturn::eval, line 195: without an operand the value is None and    *)
(* the slot is written at once; with one, the operand is evaluated first.  *)
FuncReturnEval ==
    /\ Running("FuncReturn", "start")
    /\ IF Len(Top.node.ch) > 1
       THEN /\ Eval([Top EXCEPT !.pc = "body"], 2, <<Ev("operand", Top.span)>>)
            /\ UNCHANGED vm_flow
       ELSE /\ vm_flow' = SetReturn(vm_flow, Top.span, <<>>)
            /\ stack' = Below
            /\ ret' = Ok(NoneV)
            /\ log' = Append(log, Ev("return", Top.span))
    /\ UNCHANGED <<prog, vm_scopes>>

(* FuncReturn::eval, lines 195-199, once the operand has been evaluated.   *)
FuncReturnSet ==
    /\ Running("FuncReturn", "body")
    /\ IF ~ret.ok
       THEN Finish(ret) /\ UNCHANGED vm_flow
       ELSE /\ vm_flow' = SetReturn(vm_flow, Top.span, <<ret.val>>)
            /\ stack' = Below
            /\ ret' = Ok(NoneV)
            /\ log' = Append(log, Ev("return", Top.span))
    /\ UNCHANGED <<prog, vm_scopes>>

----------------------------------------------------------------------------
(* Conditional::eval, lines 41-54.                                         *)

ConditionalEval ==
    /\ Running("Conditional", "start")
    /\ Eval([Top EXCEPT !.pc = "condition"], 1, <<Ev("condition", Top.span)>>)
    /\ UNCHANGED <<prog, vm_flow, vm_scopes>>

ConditionalBranch ==
    /\ Running("Conditional", "condition")
    /\ LET cast == IF ret.ok THEN At(CastBool(ret.val), Append(Top.span, 1))
                   ELSE ret
       IN IF ~cast.ok THEN Finish(cast)
          ELSE IF cast.val = TrueV
          THEN Eval([Top EXCEPT !.pc = "branch"], 2, <<Ev("if_body", Top.span)>>)
          ELSE IF Len(Top.node.ch) > 2
          THEN Eval([Top EXCEPT !.pc = "branch"], 3, <<Ev("else_body", Top.span)>>)
          ELSE Finish(Ok(NoneV))
    /\ UNCHANGED <<prog, vm_flow, vm_scopes>>

(* Mutant: the conditional consumes the signal its branch has set.         *)
ConditionalReturn_ClearsFlow ==
    /\ Running("Conditional", "branch")
    /\ Finish(ret)
    /\ vm_flow' = NoFlow
    /\ UNCHANGED <<prog, vm_scopes>>

(* Lines 47 and 49: the branch's result is the conditional's result.       *)
ConditionalReturn ==
    /\ Running("Conditional", "branch")
    /\ Finish(ret)
    /\ UNCHANGED <<prog, vm_flow, vm_scopes>>

----------------------------------------------------------------------------
(* WhileLoop::eval, lines 56-100.                                          *)

(* Mutant: the lint is gone, only the cap is left.                         *)
WhileGuard_NoLint(i, condition, body) ==
    IF i >= MAX_ITERATIONS THEN "loop seems to be infinite" ELSE "run"

(* Mutant: the lint does not look at the body.                             *)
WhileGuard_LintIgnoresBody(i, condition, body) ==
    IF i = 0 /\ is_invariant(condition) THEN "condition is always true"
    ELSE IF i >= MAX_ITERATIONS THEN "loop seems to be infinite"
    ELSE "run"

(* Mutant: the cap is off by one.                                          *)
WhileGuard_OffByOne(i, condition, body) ==
    IF i = 0 /\ is_invariant(condition) /\ ~can_diverge(body)
    THEN "condition is always true"
    ELSE IF i > MAX_ITERATIONS THEN "loop seems to be infinite"
    ELSE "run"

(* Mutant: the lint rejects the bodies that can diverge.                   *)
WhileGuard_LintInverted(i, condition, body) ==
    IF i = 0 /\ is_invariant(condition) /\ can_diverge(body)
    THEN "condition is always true"
    ELSE IF i >= MAX_ITERATIONS THEN "loop seems to be infinite"
    ELSE "run"

(* Mutant: the cap is gone, only the lint is left.                         *)
WhileGuard_NoCap(i, condition, body) ==
    IF i = 0 /\ is_invariant(condition) /\ ~can_diverge(body)
    THEN "condition is always true"
    ELSE "run"

(* Lines 69-76: what happens once the condition has evaluated to true.     *)
WhileGuard(i, condition, body) ==
    IF i = 0 /\ is_invariant(condition) /\ ~can_diverge(body)
    THEN "condition is always true"
    ELSE IF i >= MAX_ITERATIONS THEN "loop seems to be infinite"
    ELSE "run"

(* Mutant: a body value that does not join is dropped.                     *)
WhileJoin_Lenient(output, value) ==
    IF join(output, value).ok THEN join(output, value) ELSE Ok(output)

(* Line 79.                                                                *)
WhileJoin(output, value) == join(output, value)

(* Mutant: a pending Return is treated like an empty slot.                 *)
WhileMatch_ReturnIgnored(flow) ==
    CASE flow.kind = "Break" -> [flow |-> NoFlow, stop |-> TRUE]
      [] flow.kind = "Continue" -> [flow |-> NoFlow, stop |-> FALSE]
      [] OTHER -> [flow |-> flow, stop |-> FALSE]

(* Mutant: Continue is left in the slot.                                   *)
WhileMatch_ContinueKept(flow) ==
    CASE flow.kind = "Break" -> [flow |-> NoFlow, stop |-> TRUE]
      [] flow.kind = "Return" -> [flow |-> flow, stop |-> TRUE]
      [] OTHER -> [flow |-> flow, stop |-> FALSE]

(* Mutant: Break stops the loop but stays in the slot.                     *)
WhileMatch_BreakKept(flow) ==
    CASE flow.kind = "Continue" -> [flow |-> NoFlow, stop |-> FALSE]
      [] flow.kind \in {"Break", "Return"} -> [flow |-> flow, stop |-> TRUE]
      [] OTHER -> [flow |-> flow, stop |-> FALSE]

(* Lines 81-89: the slot after the match, and whether the loop breaks.     *)
WhileMatch(flow) ==
    CASE flow.kind = "Break" -> [flow |-> NoFlow, stop |-> TRUE]
      [] flow.kind = "Continue" -> [flow |-> NoFlow, stop |-> FALSE]
      [] flow.kind = "Return" -> [flow |-> flow, stop |-> TRUE]
      [] OTHER -> [flow |-> flow, stop |-> FALSE]

(* Mutant: the saved flow is written back even when it is empty.           *)
WhileRestore_Always(saved, flow) == saved

(* Lines 94-96.                                                            *)
WhileRestore(saved, flow) == IF saved # NoFlow THEN saved ELSE flow

(* Mutant: an error return restores the saved flow like a normal return.   *)
WhileBail_Restores(saved, flow) == IF saved # NoFlow THEN saved ELSE flow

(* Lines 68, 73, 75, 78 and 79: `?` and bail! return from eval at once;    *)
(* lines 94-96 are not reached and the slot stays as it is.                *)
WhileBail(saved, flow) == flow

(* Lines 61-68: take the flow, then evaluate the condition.                *)
WhileEnter ==
    /\ Running("WhileLoop", "start")
    /\ vm_flow' = NoFlow
    /\ Eval([Top EXCEPT !.pc = "condition", !.flow = vm_flow,
                        !.output = NoneV, !.i = 0],
            1, <<Ev("condition", Top.span)>>)
    /\ UNCHANGED <<prog, vm_scopes>>

(* Mutant: a signal the condition has set is cleared before the body runs. *)
WhileCondition_ClearsHeaderSignal ==
    /\ Running("WhileLoop", "condition")
    /\ LET f == Top
           cast == IF ret.ok THEN At(CastBool(ret.val), Append(f.span, 1))
                   ELSE ret
           guard == WhileGuard(f.i, f.node.ch[1], f.node.ch[2])
       IN IF ~cast.ok
          THEN /\ vm_flow' = WhileBail(f.flow, vm_flow)
               /\ Finish(cast)
          ELSE IF cast.val = FalseV
          THEN /\ vm_flow' = WhileRestore(f.flow, vm_flow)
               /\ Finish(Ok(f.output))
          ELSE IF guard = "condition is always true"
          THEN /\ vm_flow' = WhileBail(f.flow, vm_flow)
               /\ Finish(Err(Append(f.span, 1), <<guard>>))
          ELSE IF guard = "loop seems to be infinite"
          THEN /\ vm_flow' = WhileBail(f.flow, vm_flow)
               /\ Finish(Err(f.span, <<guard>>))
          ELSE /\ Eval([f EXCEPT !.pc = "body"], 2, <<Ev("body", f.span)>>)
               /\ vm_flow' = NoFlow
    /\ UNCHANGED <<prog, vm_scopes>>

(* Lines 68-78 and 94-98: the condition has been evaluated.                *)
WhileCondition ==
    /\ Running("WhileLoop", "condition")
    /\ LET f == Top
           cast == IF ret.ok THEN At(CastBool(ret.val), Append(f.span, 1))
                   ELSE ret
           guard == WhileGuard(f.i, f.node.ch[1], f.node.ch[2])
       IN IF ~cast.ok
          THEN /\ vm_flow' = WhileBail(f.flow, vm_flow)
               /\ Finish(cast)
          ELSE IF cast.val = FalseV
          THEN /\ vm_flow' = WhileRestore(f.flow, vm_flow)
               /\ Finish(Ok(f.output))
          ELSE IF guard = "condition is always true"
          THEN /\ vm_flow' = WhileBail(f.flow, vm_flow)
               /\ Finish(Err(Append(f.span, 1), <<guard>>))
          ELSE IF guard = "loop seems to be infinite"
          THEN /\ vm_flow' = WhileBail(f.flow, vm_flow)
               /\ Finish(Err(f.span, <<guard>>))
          ELSE /\ Eval([f EXCEPT !.pc = "body"], 2, <<Ev("body", f.span)>>)
               /\ UNCHANGED vm_flow
    /\ UNCHANGED <<prog, vm_scopes>>

(* Mutant: a pass that ends with Continue skips the increment of the       *)
(* index as well.                                                          *)
WhileBody_ContinueNotCounted ==
    /\ Running("WhileLoop", "body")
    /\ LET f == Top
           joined == IF ret.ok
                     THEN At(WhileJoin(f.output, ret.val), Append(f.span, 2))
                     ELSE ret
           m == WhileMatch(vm_flow)
       IN IF ~joined.ok
          THEN /\ vm_flow' = WhileBail(f.flow, vm_flow)
               /\ Finish(joined)
          ELSE IF m.stop
          THEN /\ vm_flow' = WhileRestore(f.flow, m.flow)
               /\ Finish(Ok(joined.val))
          ELSE /\ vm_flow' = m.flow
               /\ Eval([f EXCEPT !.pc = "condition", !.output = joined.val,
                                 !.i = IF vm_flow.kind = "Continue"
                                       THEN f.i ELSE f.i + 1,
                                 !.vals = Append(f.vals, ret.val)],
                       1, <<Ev("condition", f.span)>>)
    /\ UNCHANGED <<prog, vm_scopes>>

(* Lines 78-98: the body has been evaluated.                               *)
WhileBody ==
    /\ Running("WhileLoop", "body")
    /\ LET f == Top
           joined == IF ret.ok
                     THEN At(WhileJoin(f.output, ret.val), Append(f.span, 2))
                     ELSE ret
           m == WhileMatch(vm_flow)
       IN IF ~joined.ok
          THEN /\ vm_flow' = WhileBail(f.flow, vm_flow)
               /\ Finish(joined)
          ELSE IF m.stop
          THEN /\ vm_flow' = WhileRestore(f.flow, m.flow)
               /\ Finish(Ok(joined.val))
          ELSE /\ vm_flow' = m.flow
               /\ Eval([f EXCEPT !.pc = "condition", !.output = joined.val,
                                 !.i = f.i + 1,
                                 !.vals = Append(f.vals, ret.val)],
                       1, <<Ev("condition", f.span)>>)
    /\ UNCHANGED <<prog, vm_scopes>>

----------------------------------------------------------------------------
(* ForLoop::eval, lines 102-167.                                           *)

(* Mutant: a single-name pattern does not take the pairs of a dictionary.  *)
ForSource_NormalNoPairs(pattern, iter) ==
    IF pattern.kind # "Destructuring" /\ iter.ty = "str"
    THEN [tag |-> "iter", items |-> Graphemes(iter.v)]
    ELSE IF pattern.kind = "Destructuring" /\ iter.ty = "dict"
    THEN [tag |-> "iter", items |-> Pairs(iter.v)]
    ELSE IF iter.ty = "array"
    THEN [tag |-> "iter", items |-> iter.v]
    ELSE IF pattern.kind # "Destructuring"
    THEN [tag |-> "cannot loop over", items |-> <<>>]
    ELSE [tag |-> "cannot destructure values of", items |-> <<>>]

(* Lines 140-159: the iteration source for a pattern and an iterable.      *)
ForSource(pattern, iter) ==
    IF pattern.kind # "Destructuring" /\ iter.ty = "str"
    THEN [tag |-> "iter", items |-> Graphemes(iter.v)]
    ELSE IF iter.ty = "dict"
    THEN [tag |-> "iter", items |-> Pairs(iter.v)]
    ELSE IF iter.ty = "array"
    THEN [tag |-> "iter", items |-> iter.v]
    ELSE IF pattern.kind # "Destructuring"
    THEN [tag |-> "cannot loop over", items |-> <<>>]
    ELSE [tag |-> "cannot destructure values of", items |-> <<>>]

(* Mutant: the body value is joined in front of the output.                *)
ForJoin_Swapped(output, value) == join(value, output)

(* Line 120.                                                               *)
ForJoin(output, value) == join(output, value)

(* Mutant: Break stops the loop but stays in the slot.                     *)
ForMatch_BreakKept(flow) ==
    CASE flow.kind = "Continue" -> [flow |-> NoFlow, stop |-> FALSE]
      [] flow.kind \in {"Break", "Return"} -> [flow |-> flow, stop |-> TRUE]
      [] OTHER -> [flow |-> flow, stop |-> FALSE]

(* Mutant: Continue is left in the slot.                                   *)
ForMatch_ContinueKept(flow) ==
    CASE flow.kind = "Break" -> [flow |-> NoFlow, stop |-> TRUE]
      [] flow.kind = "Return" -> [flow |-> flow, stop |-> TRUE]
      [] OTHER -> [flow |-> flow, stop |-> FALSE]

(* Lines 122-130: the slot after the match, and whether the loop breaks.   *)
ForMatch(flow) ==
    CASE flow.kind = "Break" -> [flow |-> NoFlow, stop |-> TRUE]
      [] flow.kind = "Continue" -> [flow |-> NoFlow, stop |-> FALSE]
      [] flow.kind = "Return" -> [flow |-> flow, stop |-> TRUE]
      [] OTHER -> [flow |-> flow, stop |-> FALSE]

(* Mutant: the saved flow is written back even when it is empty.           *)
ForRestore_Always(saved, flow) == saved

(* Lines 161-163.                                                          *)
ForRestore(saved, flow) == IF saved # NoFlow THEN saved ELSE flow

(* Lines 116, 119, 120, 137, 154 and 157: `?` and bail! return from eval   *)
(* at once; lines 133 and 161-163 are not reached, so the scope is not     *)
(* left and the slot stays as it is.                                       *)
ForBail(saved, flow) == flow

(* Mutant: the loop returns without leaving its scope.                     *)
ForExit_KeepsScope(f, scopes, flow, output) ==
    /\ vm_scopes' = scopes
    /\ vm_flow' = ForRestore(f.flow, flow)
    /\ Finish(Ok(output))

(* Lines 133 and 161-165: the loop is over; the scope is left, the saved   *)
(* flow restored and the output returned.                                  *)
ForExit(f, scopes, flow, output) ==
    /\ vm_scopes' = ScopesExit(scopes)
    /\ vm_flow' = ForRestore(f.flow, flow)
    /\ Finish(Ok(output))

(* Mutant: the for loop has the iteration cap of the while loop.           *)
ForIterate_Capped(f, scopes, flow) ==
    IF f.items = <<>> THEN ForExit(f, scopes, flow, f.output)
    ELSE IF f.i >= MAX_ITERATIONS
    THEN /\ vm_scopes' = scopes
         /\ vm_flow' = ForBail(f.flow, flow)
         /\ Finish(Err(f.span, <<"loop seems to be infinite">>))
    ELSE LET bound == destructure(scopes, f.node.ch[1], Head(f.items))
         IN IF ~bound.ok
            THEN /\ vm_scopes' = scopes
                 /\ vm_flow' = ForBail(f.flow, flow)
                 /\ Finish(Err(Append(f.span, 1), bound.msg))
            ELSE /\ vm_scopes' = bound.scopes
                 /\ vm_flow' = flow
                 /\ Eval([f EXCEPT !.pc = "body", !.items = Tail(f.items),
                                   !.item = Head(f.items), !.i = f.i + 1],
                         3, <<Ev("bind", f.span), Ev("body", f.span)>>)

(* Lines 115-119: the head of `for value in $iter` with the frame f, the   *)
(* scopes and the slot as they are now: the next item is bound and the     *)
(* body evaluated, or the source is exhausted.                             *)
ForIterate(f, scopes, flow) ==
    IF f.items = <<>> THEN ForExit(f, scopes, flow, f.output)
    ELSE LET bound == destructure(scopes, f.node.ch[1], Head(f.items))
         IN IF ~bound.ok
            THEN /\ vm_scopes' = scopes
                 /\ vm_flow' = ForBail(f.flow, flow)
                 /\ Finish(Err(Append(f.span, 1), bound.msg))
            ELSE /\ vm_scopes' = bound.scopes
                 /\ vm_flow' = flow
                 /\ Eval([f EXCEPT !.pc = "body", !.items = Tail(f.items),
                                   !.item = Head(f.items), !.i = f.i + 1],
                         3, <<Ev("bind", f.span), Ev("body", f.span)>>)

(* Lines 107-108 and 137: take the flow, then evaluate the iterable.       *)
ForEnter ==
    /\ Running("ForLoop", "start")
    /\ vm_flow' = NoFlow
    /\ Eval([Top EXCEPT !.pc = "iter", !.flow = vm_flow, !.output = NoneV,
                        !.depth = Len(vm_scopes)],
            2, <<Ev("iter", Top.span)>>)
    /\ UNCHANGED <<prog, vm_scopes>>

(* Lines 137-159 and 112: the iterable has been evaluated.                 *)
ForDispatch ==
    /\ Running("ForLoop", "iter")
    /\ LET f == Top
           source == ForSource(f.node.ch[1], ret.val)
       IN IF ~ret.ok
          THEN /\ vm_flow' = ForBail(f.flow, vm_flow)
               /\ Finish(ret)
               /\ UNCHANGED vm_scopes
          ELSE IF source.tag = "cannot loop over"
          THEN /\ vm_flow' = ForBail(f.flow, vm_flow)
               /\ Finish(Err(Append(f.span, 2), <<source.tag, ret.val.ty>>))
               /\ UNCHANGED vm_scopes
          ELSE IF source.tag = "cannot destructure values of"
          THEN /\ vm_flow' = ForBail(f.flow, vm_flow)
               /\ Finish(Err(Append(f.span, 1), <<source.tag, ret.val.ty>>))
               /\ UNCHANGED vm_scopes
          ELSE ForIterate([f EXCEPT !.items = source.items, !.iter = ret.val],
                          ScopesEnter(vm_scopes), vm_flow)
    /\ UNCHANGED prog

(* Lines 119-133: the body has been evaluated.                             *)
ForBody ==
    /\ Running("ForLoop", "body")
    /\ LET f == Top
           joined == IF ret.ok
                     THEN At(ForJoin(f.output, ret.val), Append(f.span, 3))
                     ELSE ret
           m == ForMatch(vm_flow)
       IN IF ~joined.ok
          THEN /\ vm_flow' = ForBail(f.flow, vm_flow)
               /\ Finish(joined)
               /\ UNCHANGED vm_scopes
          ELSE IF m.stop
          THEN ForExit(f, vm_scopes, m.flow, joined.val)
          ELSE ForIterate([f EXCEPT !.output = joined.val,
                                    !.vals = Append(f.vals, ret.val)],
                          vm_scopes, m.flow)
    /\ UNCHANGED prog

----------------------------------------------------------------------------
(* The expression evaluator outside flow.rs, as far as the programs below  *)
(* use it.                                                                 *)

(* The code points of the string an identifier may hold: two grapheme      *)
(* clusters, the first with a combining mark.                              *)
Accented == <<"e", "cm", "b">>

(* The length of the array an identifier may hold (more than               *)
(* MAX_ITERATIONS), and its elements.                                      *)
ArrayLen == 3
Letters == <<"a", "b", "c", "d", "e", "f">>
Elements == [k \in 1..ArrayLen |-> StrV(<<Letters[k]>>)]

(* The values an identifier or a function call may produce.                *)
ExtValues ==
    {TrueV, FalseV, IntV("1"), StrV(Accented), ArrayV(Elements), ArrayV(<<>>),
     DictV(<<<< <<"k">>, StrV(<<"a">>) >>, << <<"l">>, StrV(<<"b">>) >>>>)}

ExtResults(span) ==
    {Ok(v) : v \in ExtValues} \cup {Err(span, <<"unknown variable">>)}

(* A literal evaluates to its value.                                       *)
LiteralValue(node) ==
    CASE node.kind = "Bool" -> BoolV(node.val = "true")
      [] node.kind = "Str" -> StrV(<<node.val>>)
      [] node.kind = "Int" -> IntV(node.val)
      [] OTHER -> NoneV

LiteralEval ==
    /\ stack # <<>>
    /\ Top.node.kind \in {"Bool", "Str", "Int", "None"}
    /\ Finish(Ok(LiteralValue(Top.node)))
    /\ UNCHANGED <<prog, vm_flow, vm_scopes>>

(* An identifier may be bound to anything, or unbound.                     *)
IdentEval ==
    /\ stack # <<>>
    /\ Top.node.kind \in {"Ident", "MathIdent"}
    /\ \E r \in ExtResults(Top.span) : Finish(r)
    /\ UNCHANGED <<prog, vm_flow, vm_scopes>>

(* A call evaluates its arguments in order, whatever the flow slot holds,  *)
(* and then produces whatever the callee produces.                         *)
FuncCallEval ==
    /\ stack # <<>>
    /\ Top.node.kind = "FuncCall"
    /\ LET f == Top
           args == f.node.ch[2].ch
       IN IF f.pc = "args" /\ ~ret.ok THEN Finish(ret)
          ELSE IF f.i < Len(args)
          THEN EvalNode([f EXCEPT !.pc = "args", !.i = f.i + 1],
                        args[f.i + 1], f.span \o <<2, f.i + 1>>,
                        <<Ev("arg", f.span)>>)
          ELSE \E r \in ExtResults(f.span) : Finish(r)
    /\ UNCHANGED <<prog, vm_flow, vm_scopes>>

(* A code block evaluates its expressions in order, joins their values     *)
(* and stops after an expression that leaves a signal in the flow slot.    *)
CodeBlockEval ==
    /\ stack # <<>>
    /\ Top.node.kind = "CodeBlock"
    /\ LET f == Top
           joined == IF f.pc = "start" THEN Ok(NoneV)
                     ELSE IF ~ret.ok THEN ret
                     ELSE At(join(f.output, ret.val), Append(f.span, f.i))
       IN IF ~joined.ok THEN Finish(joined)
          ELSE IF (f.pc = "exprs" /\ vm_flow # NoFlow) \/ f.i = Len(f.node.ch)
          THEN Finish(Ok(joined.val))
          ELSE Eval([f EXCEPT !.pc = "exprs", !.i = f.i + 1,
                              !.output = joined.val],
                    f.i + 1, <<Ev("expr", f.span)>>)
    /\ UNCHANGED <<prog, vm_flow, vm_scopes>>

(* The evaluator of the program unit: the root expression has returned; a  *)
(* signal that is still pending has no construct to consume it and is      *)
(* reported.                                                               *)
EvalUnit ==
    /\ stack = <<>>
    /\ ret.ok
    /\ vm_flow # NoFlow
    /\ ret' = forbidden(vm_flow)
    /\ UNCHANGED <<prog, vm_flow, vm_scopes, stack, log>>

----------------------------------------------------------------------------
(* The programs under evaluation.                                          *)

Emitters ==
    {LoopBreak, LoopContinue, FuncReturn, FuncReturnOf(StrL("r"))}

(* Loop headers: an invariant condition, one that may change, and one with *)
(* a call that evaluates a break on its way.                               *)
Conditions ==
    {BoolL("true"), Ident("x"), FuncCall(Ident("f"), <<LoopBreak>>)}

Patterns == {Ident("v"), Destructuring(<<"k", "v">>)}

Iterables == {Ident("xs"), FuncCall(Ident("f"), <<LoopContinue>>)}

(* Loop bodies without a loop in them.                                     *)
SimpleBodies ==
    Emitters
    \cup {StrL("a"), IntL("1")}
    \cup {Conditional(Ident("x"), e) : e \in Emitters}
    \cup {CodeBlock(<<StrL("a"), e>>) : e \in Emitters}
    \cup {CodeBlock(<<lit, Conditional(Ident("x"), e)>>) :
            lit \in {StrL("a"), IntL("1")}, e \in {LoopBreak, LoopContinue}}
    \cup {ConditionalElse(Ident("x"), StrL("a"), StrL("b"))}

SimpleLoops ==
    {WhileLoop(c, b) : c \in Conditions, b \in SimpleBodies}
    \cup {ForLoop(p, it, b) : p \in Patterns, it \in Iterables,
                              b \in SimpleBodies}

(* The loops that are nested in another loop.                              *)
InnerBodies ==
    {LoopBreak, LoopContinue, FuncReturnOf(StrL("r")),
     CodeBlock(<<StrL("a"), LoopBreak>>),
     Conditional(Ident("x"), FuncReturn)}

InnerLoops ==
    {WhileLoop(Ident("x"), b) : b \in InnerBodies}
    \cup {ForLoop(Ident("v"), Ident("xs"), b) : b \in InnerBodies}

NestedBodies ==
    InnerLoops
    \cup {Conditional(Ident("x"), l) : l \in InnerLoops}
    \cup {CodeBlock(<<l, StrL("b")>>) : l \in InnerLoops}

NestedLoops ==
    {WhileLoop(Ident("x"), b) : b \in NestedBodies}
    \cup {ForLoop(Ident("v"), Ident("xs"), b) : b \in NestedBodies}

(* Emitters evaluated one after the other, and loops entered while a       *)
(* signal is pending: the arguments of a call are all evaluated.           *)
Sequences ==
    {FuncCall(Ident("f"), <<a, b>>) : a \in Emitters, b \in Emitters}
    \cup {FuncReturnOf(e) : e \in Emitters}

PendingLoops ==
    {FuncCall(Ident("f"), <<e, l>>) : e \in Emitters, l \in SimpleLoops}

(* Conditionals on their own, with a condition that may set a signal.      *)
Conditionals ==
    LET conditions == {Ident("x"), FuncCall(Ident("f"), <<LoopBreak>>)}
        if_bodies == {StrL("a"), LoopContinue}
        else_bodies == {StrL("b"), FuncReturn}
    IN {Conditional(c, b) : c \in conditions, b \in if_bodies}
       \cup {ConditionalElse(c, b, e) :
                c \in conditions, b \in if_bodies, e \in else_bodies}

(* Loops whose header sets a signal of each kind on its way.               *)
HeaderLoops ==
    LET header(e) == FuncCall(Ident("f"), <<e>>)
        bodies == {StrL("a"), LoopBreak}
    IN {WhileLoop(header(e), b) : e \in {LoopContinue, FuncReturn},
                                  b \in bodies}
       \cup {ForLoop(Ident("v"), header(e), b) :
                e \in {LoopBreak, FuncReturn}, b \in bodies}

(* Nested loops whose inner body has a value that does not join with       *)
(* itself and breaks or continues in some passes only.                     *)
MixedLoops ==
    LET body(e) == CodeBlock(<<IntL("1"), Conditional(Ident("x"), e)>>)
    IN {WhileLoop(Ident("x"), WhileLoop(Ident("x"), body(LoopBreak))),
        WhileLoop(Ident("x"),
                  ForLoop(Ident("v"), Ident("xs"), body(LoopContinue)))}

(* Loops with an invariant condition whose body has a break that a loop    *)
(* nested in it consumes.                                                  *)
GuardedLoops ==
    {WhileLoop(BoolL("true"), WhileLoop(Ident("x"), LoopBreak)),
     WhileLoop(BoolL("true"), ForLoop(Ident("v"), Ident("xs"), LoopBreak))}

(* Returns whose operand may fail, with and without a signal pending.      *)
Returns ==
    {FuncReturnOf(Ident("x")),
     FuncCall(Ident("f"), <<LoopBreak, FuncReturnOf(Ident("x"))>>)}

Programs ==
    Emitters \cup SimpleLoops \cup NestedLoops \cup Sequences
    \cup PendingLoops \cup Conditionals \cup HeaderLoops \cup MixedLoops
    \cup GuardedLoops \cup Returns

----------------------------------------------------------------------------
Init ==
    /\ prog \in Programs
    /\ vm_flow = NoFlow
    /\ vm_scopes = <<{}>>
    /\ stack = <<NewFrame(prog, <<>>)>>
    /\ ret = NoRet
    /\ log = <<>>

Next ==
    \/ LoopBreakEval
    \/ LoopContinueEval
    \/ FuncReturnEval
    \/ FuncReturnSet
    \/ ConditionalEval
    \/ ConditionalBranch
    \/ ConditionalReturn
    \/ WhileEnter
    \/ WhileCondition
    \/ WhileBody
    \/ ForEnter
    \/ ForDispatch
    \/ ForBody
    \/ LiteralEval
    \/ IdentEval
    \/ FuncCallEval
    \/ CodeBlockEval
    \/ EvalUnit

Spec == Init /\ [][Next]_vars

(* The syntactic predicates on their own: every syntax tree of a bounded   *)
(* depth, built from each kind of node the predicates tell apart.          *)
MaxDepth == 2

Leaves == {Ident("x"), MathIdent("y"), BoolL("true"), Tok("Break")}

RECURSIVE Trees(_)
Trees(depth) ==
    IF depth = 0 THEN Leaves
    ELSE LET sub == Trees(depth - 1)
         IN sub
            \cup {FieldAccess(t, "f") : t \in sub}
            \cup {FuncCall(c, <<a>>) : c \in sub, a \in Leaves}
            \cup {FuncCall(c, <<a>>) : c \in Leaves, a \in sub}
            \cup {CodeBlock(<<t>>) : t \in sub}
            \cup {CodeBlock(<<a, t>>) : a \in Leaves, t \in sub}

TreeInit ==
    /\ prog \in Trees(MaxDepth)
    /\ vm_flow = NoFlow
    /\ vm_scopes = <<{}>>
    /\ stack = <<>>
    /\ ret = NoRet
    /\ log = <<>>

(* Line 70: is_invariant is applied to the tree.                           *)
IsInvariantCall ==
    /\ ret = NoRet
    /\ ret' = Ok(BoolV(is_invariant(prog)))
    /\ log' = <<Ev("is_invariant", <<>>)>>
    /\ UNCHANGED <<prog, vm_flow, vm_scopes, stack>>

TreeNext == IsInvariantCall

TreeSpec == TreeInit /\ [][TreeNext]_vars

(* The evaluator is one thread of control that runs every call to its end: *)
(* a step that can be taken is taken.                                      *)
FairSpec == Spec /\ WF_vars(Next)

----------------------------------------------------------------------------
(* Vocabulary of the properties.                                           *)

IsLoop(f) == f.node.kind \in {"WhileLoop", "ForLoop"}
IsEmitter(f) == f.node.kind \in {"LoopBreak", "LoopContinue", "FuncReturn"}

(* The frame on top is a loop whose body evaluation has just returned.     *)
AfterBody == stack # <<>> /\ IsLoop(Top) /\ Top.pc = "body"

RECURSIVE HasLoop(_)
HasLoop(node) ==
    \/ node.kind \in {"WhileLoop", "ForLoop"}
    \/ \E k \in 1..Len(node.ch) : HasLoop(node.ch[k])

IsEmit(e) == e[1] \in {"break", "continue", "return"}
Emitted == SelectSeq(log, IsEmit)
IsIteration(e) == e[1] \in {"condition", "iter", "bind", "body"}
SignalKind(what) ==
    CASE what = "break" -> "Break"
      [] what = "continue" -> "Continue"
      [] what = "return" -> "Return"

----------------------------------------------------------------------------
C1_Emits ==
    /\ stack # <<>>
    /\ IsEmitter(Top)
    /\ Top.node.kind = "FuncReturn" =>
          \/ Top.pc = "start" /\ Len(Top.node.ch) = 1
          \/ Top.pc = "body" /\ ret.ok

C1_Signal ==
    CASE Top.node.kind = "LoopBreak" -> Break(Top.span)
      [] Top.node.kind = "LoopContinue" -> Continue(Top.span)
      [] Top.node.kind = "FuncReturn" ->
            Return(Top.span, IF Top.pc = "body" THEN <<ret.val>> ELSE <<>>)

C1_Step ==
    C1_Emits =>
        /\ stack' = Below
        /\ ret' = Ok(NoneV)
        /\ vm_flow = NoFlow => vm_flow' = C1_Signal
        /\ vm_flow # NoFlow => vm_flow' = vm_flow

C1_First ==
    (~HasLoop(prog) /\ Emitted # <<>>) =>
        /\ vm_flow.kind = SignalKind(Emitted[1][1])
        /\ vm_flow.span = Emitted[1][2]

----------------------------------------------------------------------------
C2_InBody(f) ==
    \/ IsLoop(f) /\ f.pc = "body" /\ f.flow = NoFlow
    \/ f.node.kind = "Conditional" /\ f.pc = "branch"
    \/ f.node.kind = "CodeBlock" /\ f.pc = "exprs"
    \/ f.node.kind = "FuncReturn" /\ f.pc = "body"

C2_Unwinding ==
    /\ stack # <<>>
    /\ vm_flow.kind = "Return"
    /\ \A k \in 1..Len(stack) : C2_InBody(stack[k])

C2_Step ==
    C2_Unwinding =>
        /\ stack' = Below
        /\ vm_flow' = vm_flow
        /\ SelectSeq(log', IsIteration) = SelectSeq(log, IsIteration)

(* C2: a Return set in the body of a loop stops that loop and every loop   *)
(* around it, and is not cleared. Whenever the slot holds Return and the   *)
(* active calls are loops in their bodies (each entered with an empty      *)
(* slot), conditionals in a branch, blocks and return operands, the next   *)
(* step returns from the innermost of them: no condition is evaluated, no  *)
(* item bound, no body run, and the slot keeps the same Return (span and   *)
(* value), down to the return of the outermost loop.                       *)
C2_ReturnPropagates == [][C2_Step]_vars

(* A return with a value is pending and a for loop in the body of a while  *)
(* loop (or the other way round) is about to see it.                       *)
C2_Witness ==
    /\ C2_Unwinding
    /\ vm_flow.value # <<>>
    /\ \E j, k \in 1..Len(stack) :
          /\ j < k
          /\ IsLoop(stack[j])
          /\ IsLoop(stack[k])
          /\ stack[j].node.kind # stack[k].node.kind

----------------------------------------------------------------------------
C3_BreakSeen ==
    /\ AfterBody
    /\ ret.ok
    /\ Top.flow = NoFlow
    /\ vm_flow.kind = "Break"

C3_Consumed ==
    /\ stack' = Below
    /\ ret' = Ok(join(Top.output, ret.val).val)
    /\ vm_flow' = NoFlow
    /\ log' = log

(* C3, as stated: in a loop entered with an empty slot, if the slot holds  *)
(* Break after a body evaluation, the loop returns Ok with the accumulated *)
(* value at once and the slot is empty.                                    *)
C3_AsStated == [][C3_BreakSeen => C3_Consumed]_vars

(* C3, amended: in a loop entered with an empty slot, if the body value    *)
(* joins with the accumulated output and the slot then holds Break, the    *)
(* loop returns Ok with the accumulated value at once (no condition, bind  *)
(* or body follows) and the slot is empty.                                 *)
C3_BreakConsumed ==
    [][(C3_BreakSeen /\ join(Top.output, ret.val).ok) => C3_Consumed]_vars

(* A loop in its second pass ends on a break with a joined value.          *)
C3_Witness ==
    /\ stack = <<>>
    /\ HasLoop(prog)
    /\ prog.kind \in {"WhileLoop", "ForLoop"}
    /\ ret = Ok(StrV(<<"a", "a">>))
    /\ vm_flow = NoFlow
    /\ log[Len(log)][1] = "break"

----------------------------------------------------------------------------
(* What a loop does after a pass that left no signal: a while loop         *)
(* evaluates its condition again with the index advanced; a for loop binds *)
(* the next item and runs the body, fails on the bind, or, with the source *)
(* exhausted, returns.                                                     *)
C4_NextPass ==
    LET f == Top
        out == join(f.output, ret.val).val
        g == stack'[Len(stack)]
    IN IF f.node.kind = "WhileLoop"
       THEN /\ vm_flow' = NoFlow
            /\ Len(stack') = Len(stack) + 1
            /\ g.pc = "condition" /\ g.i = f.i + 1 /\ g.output = out
            /\ stack'[Len(stack')] = NewFrame(f.node.ch[1], Append(f.span, 1))
       ELSE IF f.items = <<>>
       THEN /\ stack' = Below
            /\ ret' = Ok(out)
            /\ vm_flow' = f.flow
       ELSE IF destructure(vm_scopes, f.node.ch[1], Head(f.items)).ok
       THEN /\ vm_flow' = NoFlow
            /\ Len(stack') = Len(stack) + 1
            /\ g.pc = "body" /\ g.items = Tail(f.items) /\ g.output = out
            /\ stack'[Len(stack')] = NewFrame(f.node.ch[3], Append(f.span, 3))
       ELSE /\ stack' = Below
            /\ ~ret'.ok
            /\ vm_flow' = NoFlow

(* C4, as stated: Continue affects only the current pass. If the slot      *)
(* holds Continue after a body evaluation, the loop clears the slot and    *)
(* goes on to the next pass as if no signal had been set.                  *)
C4_AsStated ==
    [][(AfterBody /\ ret.ok /\ vm_flow.kind = "Continue") => C4_NextPass]_vars

(* C4, amended: if the body value joins with the accumulated output and    *)
(* the slot then holds Continue, the loop clears the slot and goes on to   *)
(* the next pass exactly as it does when the slot is empty.                *)
C4_ContinueOnlyThisPass ==
    [][(/\ AfterBody
        /\ ret.ok
        /\ join(Top.output, ret.val).ok
        /\ vm_flow.kind \in {"Continue", "None"}) => C4_NextPass]_vars

(* A loop has consumed a continue and started its next pass.               *)
C4_Consumed(kind, last) ==
    /\ Len(stack) >= 2
    /\ stack[Len(stack) - 1].node.kind = kind
    /\ stack[Len(stack) - 1].vals # <<>>
    /\ Top.pc = "start"
    /\ vm_flow = NoFlow
    /\ Len(log) >= 2
    /\ log[Len(log)][1] = last
    /\ log[Len(log) - 1][1] \in {"continue", "bind"}
    /\ \E k \in 1..Len(log) : log[k][1] = "continue"

C4_Witness ==
    /\ C4_Consumed("ForLoop", "body")
    /\ prog.kind = "ForLoop"
    /\ prog.ch[3] = LoopContinue

----------------------------------------------------------------------------
RECURSIVE C5_Fold(_, _)
C5_Fold(acc, values) ==
    IF values = <<>> THEN acc
    ELSE C5_Fold(join(acc, Head(values)).val, Tail(values))

C5_BodyValues ==
    IF Top.pc = "body" THEN Append(Top.vals, ret.val) ELSE Top.vals

C5_Step ==
    (stack # <<>> /\ IsLoop(Top) /\ stack' = Below /\ ret'.ok) =>
        ret'.val = C5_Fold(NoneV, C5_BodyValues)

(* C5: a loop that returns Ok returns the left fold of join, seeded with   *)
(* the identity value, over the body values of the passes that ran, in     *)
(* order, the value of the pass that ended the loop included.              *)
C5_OutputIsFold == [][C5_Step]_vars

(* Two passes with different values, the second one ending in a break or   *)
(* after an else-branch: the order of the join shows in the result.        *)
C5_Witness ==
    /\ stack = <<>>
    /\ prog.kind = "ForLoop"
    /\ ret = Ok(StrV(<<"a", "b">>))

----------------------------------------------------------------------------
(* The passes of the evaluation of the loop at `span` that ran its body.   *)
BodyRuns(span) == {k \in 1..Len(log) : log[k] = Ev("body", span)}

ConditionTrue ==
    /\ Running("WhileLoop", "condition")
    /\ ret.ok
    /\ ret.val.ty = "bool"
    /\ ret.val = TrueV

Lint(span) == Err(span, <<"condition is always true">>)
Infinite(span) == Err(span, <<"loop seems to be infinite">>)

C6_Step ==
    (/\ ConditionTrue
     /\ is_invariant(Top.node.ch[1])
     /\ ~can_diverge(Top.node.ch[2])) =>
        /\ Top.i = 0
        /\ BodyRuns(Top.span) = {}
        /\ stack' = Below
        /\ ret' = Lint(Append(Top.span, 1))
        /\ log' = log

(* C6: the invariant lint. A while loop whose condition is syntactically   *)
(* invariant and evaluates to true, and whose body contains no break or    *)
(* return node, fails with "condition is always true" at the condition's   *)
(* span, in its first pass, with no body evaluation before or after.       *)
C6_InvariantLint == [][C6_Step]_vars

(* `while true { "a" }` and the like have failed with the lint.            *)
C6_Witness ==
    /\ stack = <<>>
    /\ prog.kind = "WhileLoop"
    /\ is_invariant(prog.ch[1])
    /\ ~can_diverge(prog.ch[2])
    /\ ret = Lint(<<1>>)
    /\ BodyRuns(<<>>) = {}

----------------------------------------------------------------------------
C7_Step ==
    /\ (/\ ConditionTrue
        /\ Top.i = 0
        /\ is_invariant(Top.node.ch[1])
        /\ can_diverge(Top.node.ch[2])) =>
            /\ Len(stack') = Len(stack) + 1
            /\ stack'[Len(stack')] = NewFrame(Top.node.ch[2], Append(Top.span, 2))
    /\ (/\ Running("WhileLoop", "body")
        /\ Top.i = 0
        /\ Top.flow = NoFlow
        /\ is_invariant(Top.node.ch[1])
        /\ ret.ok
        /\ vm_flow.kind = "Break") =>
            /\ stack' = Below
            /\ ret' = Ok(ret.val)
            /\ vm_flow' = NoFlow
            /\ log' = log

----------------------------------------------------------------------------
C8_Step ==
    /\ (ConditionTrue /\ Top.i >= MAX_ITERATIONS) =>
            /\ stack' = Below
            /\ ret' = Infinite(Top.span)
    /\ (/\ Running("WhileLoop", "condition")
        /\ ret.ok
        /\ ret.val.ty = "bool"
        /\ ret.val = FalseV) =>
            /\ stack' = Below
            /\ ret' = Ok(Top.output)

C8_Bounded ==
    /\ \A k \in 1..Len(stack) :
          stack[k].node.kind = "WhileLoop" =>
              /\ stack[k].i <= MAX_ITERATIONS
              /\ stack[k].pc = "body" => stack[k].i < MAX_ITERATIONS
    /\ prog.kind = "WhileLoop" =>
          Cardinality(BodyRuns(<<>>)) <= MAX_ITERATIONS

(* C8: the iteration cap. A condition that is true with the index at the   *)
(* cap fails the loop with "loop seems to be infinite" at the loop's span; *)
(* a condition that is false (one pass before the cap, or at any index)    *)
(* returns Ok with the output; and no evaluation of a while loop runs its  *)
(* body more than MAX_ITERATIONS times.                                    *)
C8_IterationCap == []C8_Bounded /\ [][C8_Step]_vars

(* `while x { "a" }` with x true MAX_ITERATIONS + 1 times has failed       *)
(* after exactly MAX_ITERATIONS body evaluations.                          *)
C8_Witness ==
    /\ stack = <<>>
    /\ prog = WhileLoop(Ident("x"), StrL("a"))
    /\ ret = Infinite(<<>>)
    /\ Cardinality(BodyRuns(<<>>)) = MAX_ITERATIONS

----------------------------------------------------------------------------
C9_Left ==
    IF Top.pc = "body" /\ vm_flow.kind \in {"Break", "Continue"}
    THEN NoFlow ELSE vm_flow

C9_Step ==
    /\ (stack # <<>> /\ IsLoop(Top) /\ Top.pc = "start") =>
            /\ vm_flow' = NoFlow
            /\ stack'[Len(stack)].flow = vm_flow
    /\ (/\ stack # <<>>
        /\ IsLoop(Top)
        /\ Top.pc # "start"
        /\ stack' = Below
        /\ ret'.ok) =>
            vm_flow' = IF Top.flow # NoFlow THEN Top.flow ELSE C9_Left

(* C9: saved-flow isolation. Entering a loop empties the slot, whatever it *)
(* held; a loop that returns Ok leaves in the slot the signal S it was     *)
(* entered with, if any, and otherwise what its own run left there: a      *)
(* Break or Continue seen after the last body is consumed, anything else   *)
(* (a Return, a signal set by the header) stays.                           *)
C9_SavedFlowRestored == [][C9_Step]_vars

(* f(break, loop): the loop's body has set a Return of its own, the loop   *)
(* has returned Ok, and the slot holds the Break again.                    *)
C9_Witness ==
    /\ stack # <<>>
    /\ Top.node.kind = "FuncCall"
    /\ Top.i = 2
    /\ ret.ok
    /\ ret # NoRet
    /\ vm_flow = Break(Top.span \o <<2, 1>>)
    /\ Len(Emitted) >= 2
    /\ Emitted[2][1] = "return"

----------------------------------------------------------------------------
C10_ErrorExit ==
    /\ stack # <<>>
    /\ IsLoop(Top)
    /\ Top.pc # "start"
    /\ Top.flow # NoFlow
    /\ stack' = Below
    /\ ~ret'.ok

(* C10, as stated: a loop entered with a signal S pending that ends with   *)
(* an error leaves S in the slot.                                          *)
C10_AsStated == [][C10_ErrorExit => vm_flow' = Top.flow]_vars

(* C10, amended: a loop entered with a signal S pending that ends with an  *)
(* error does not restore S: the slot stays as the failing step found it   *)
(* (empty, or a signal set by the loop's own header or body), and that is  *)
(* never S.                                                                *)
C10_ErrorDropsSavedFlow ==
    [][C10_ErrorExit => (vm_flow' = vm_flow /\ vm_flow' # Top.flow)]_vars

(* f(break, while x { .. }): the loop has hit the iteration cap and the    *)
(* slot, which held the Break when the loop was entered, is empty.         *)
C10_Witness ==
    /\ stack # <<>>
    /\ Top.node.kind = "FuncCall"
    /\ Top.i = 2
    /\ ret = Infinite(Top.span \o <<2, 2>>)
    /\ Emitted # <<>>
    /\ Emitted[1] = Ev("break", Top.span \o <<2, 1>>)
    /\ vm_flow = NoFlow

----------------------------------------------------------------------------
(* The frame of the loop once the step has called eval on its body.        *)
Caller == stack'[Len(stack)]
CallsBody ==
    /\ Len(stack') = Len(stack) + 1
    /\ Caller.pc = "body"
    /\ stack'[Len(stack')] = NewFrame(Top.node.ch[3], Append(Top.span, 3))

C11_Normal(pattern) == pattern.kind # "Destructuring"

(* What the loop is to go through: the items, or the error.                *)
C11_Items(items) == [ok |-> TRUE, items |-> items, err |-> NoRet]
C11_Fails(span, msg, ty) ==
    [ok |-> FALSE, items |-> <<>>, err |-> Err(span, <<msg, ty>>)]

C11_Source(f, iter) ==
    CASE C11_Normal(f.node.ch[1]) /\ iter.ty = "str" ->
            C11_Items(Graphemes(iter.v))
      [] iter.ty = "dict" -> C11_Items(Pairs(iter.v))
      [] iter.ty = "array" -> C11_Items(iter.v)
      [] C11_Normal(f.node.ch[1]) /\ iter.ty \notin {"str", "dict", "array"} ->
            C11_Fails(Append(f.span, 2), "cannot loop over", iter.ty)
      [] OTHER ->
            C11_Fails(Append(f.span, 1), "cannot destructure values of",
                      iter.ty)

(* The loop takes the items of `items` in order: the first is bound and    *)
(* the body called with the rest left in the source, unless the bind       *)
(* fails; with no item left the loop returns.                              *)
C11_Takes(items) ==
    IF items = <<>> THEN stack' = Below /\ ret'.ok
    ELSE \/ CallsBody /\ Caller.item = Head(items) /\ Caller.items = Tail(items)
         \/ /\ Top.node.ch[1].kind = "Destructuring"
            /\ stack' = Below
            /\ ~ret'.ok

C11_Step ==
    /\ (Running("ForLoop", "iter") /\ ret.ok) =>
          LET source == C11_Source(Top, ret.val)
          IN IF ~source.ok
             THEN /\ stack' = Below
                  /\ ret' = source.err
                  /\ log' = log
             ELSE C11_Takes(source.items)
    /\ (/\ Running("ForLoop", "body")
        /\ ~(stack' = Below)) => C11_Takes(Top.items)

(* C11: for-loop source dispatch. With a Normal pattern a string is gone   *)
(* through by grapheme clusters; with any pattern a dictionary by its      *)
(* (key, value) pairs (a Normal pattern is bound to the pair as it is) and *)
(* an array by its elements, each in order; a Normal pattern with a value  *)
(* of another type fails with "cannot loop over {type}" at the iterable's  *)
(* span, every other combination with "cannot destructure values of        *)
(* {type}" at the pattern's span, and in both the body is not evaluated.   *)
C11_SourceDispatch == [][C11_Step]_vars

(* `for v in xs` over a dictionary is in its second pass, v bound to the   *)
(* second pair as it is.                                                   *)
C11_Witness ==
    /\ Len(stack) >= 2
    /\ stack[1].node.kind = "ForLoop"
    /\ stack[1].node.ch[1] = Ident("v")
    /\ stack[1].pc = "body"
    /\ stack[1].item = ArrayV(<<StrV(<<"l">>), StrV(<<"b">>)>>)
    /\ stack[1].items = <<>>
    /\ "v" \in vm_scopes[Len(vm_scopes)]

----------------------------------------------------------------------------
(* A for loop that has selected an iteration source takes a step: it is    *)
(* in its body, or the iterable has evaluated to a value the pattern can   *)
(* go through.                                                             *)
C12_Iterating ==
    \/ Running("ForLoop", "body")
    \/ /\ Running("ForLoop", "iter")
       /\ ret.ok
       /\ C11_Source(Top, ret.val).ok

C12_Returns == stack' = Below

(* C12, as stated: the scope depth after a for loop that selected a        *)
(* source returns equals the depth before it was called, on every exit     *)
(* path, the aborts by a bind, body or join failure included.              *)
C12_AsStated ==
    [][(C12_Iterating /\ C12_Returns) => Len(vm_scopes') = Top.depth]_vars

C12_Step ==
    C12_Iterating =>
        /\ (C12_Returns /\ ret'.ok) => Len(vm_scopes') = Top.depth
        /\ (C12_Returns /\ ~ret'.ok) => Len(vm_scopes') > Top.depth
        /\ CallsBody => Len(vm_scopes') = Top.depth + 1

(* C12, amended: a for loop that selects a source enters one scope before  *)
(* the first item, stays in it from pass to pass, and leaves it when it    *)
(* returns Ok (source exhausted, Break, propagated Return): the depth is   *)
(* then what it was before the call. When a bind, body or join failure     *)
(* aborts the loop the scope is not left: the depth is greater than        *)
(* before the call.                                                        *)
C12_ScopeBalance == [][C12_Step]_vars

(* `for (k, v) in xs` over a dictionary has ended on a break in its second *)
(* pass, after both names were bound, and the scope stack is as before.    *)
C12_Witness ==
    /\ stack = <<>>
    /\ prog.kind = "ForLoop"
    /\ prog.ch[1].kind = "Destructuring"
    /\ ret.ok
    /\ vm_scopes = <<{}>>
    /\ Cardinality(BodyRuns(<<>>)) = 2
    /\ log[Len(log)][1] = "break"

----------------------------------------------------------------------------
(* The step calls eval on child k of the node on top.                      *)
CallsChild(k) ==
    /\ Len(stack') = Len(stack) + 1
    /\ stack'[Len(stack')] = NewFrame(Top.node.ch[k], Append(Top.span, k))

C13_Conditional == stack # <<>> /\ Top.node.kind = "Conditional"

C13_Step ==
    /\ C13_Conditional => vm_flow' = vm_flow
    /\ Running("Conditional", "start") => CallsChild(1)
    /\ (Running("Conditional", "condition") /\ ~ret.ok) =>
            stack' = Below /\ ret' = ret /\ log' = log
    /\ (Running("Conditional", "condition") /\ ret.ok) =>
          IF ret.val.ty # "bool"
          THEN /\ stack' = Below
               /\ ~ret'.ok
               /\ ret'.span = Append(Top.span, 1)
               /\ log' = log
          ELSE IF ret.val = TrueV
          THEN CallsChild(2) /\ Caller.pc = "branch"
          ELSE IF Len(Top.node.ch) > 2
          THEN CallsChild(3) /\ Caller.pc = "branch"
          ELSE stack' = Below /\ ret' = Ok(NoneV) /\ log' = log
    /\ Running("Conditional", "branch") =>
            stack' = Below /\ ret' = ret /\ log' = log

(* C13: the conditional never writes the flow slot, and evaluates one      *)
(* continuation: after a true condition the if-branch and nothing else,    *)
(* after a false one the else-branch if there is one and otherwise nothing *)
(* (the result is the identity value), after a condition that is not a     *)
(* boolean nothing (the result is an error at the condition's span); the   *)
(* branch's result is the conditional's result. The slot after the         *)
(* conditional is thus what the condition and the branch left in it.       *)
C13_ConditionalFrame == [][C13_Step]_vars

(* `if f(break) { .. } else { return }` and the like: the condition has    *)
(* set Break, the else-branch has been evaluated, its return was a no-op,  *)
(* and the conditional has returned with the Break still in the slot.      *)
C13_Witness ==
    /\ stack = <<>>
    /\ prog.kind = "Conditional"
    /\ Len(prog.ch) = 3
    /\ ret = Ok(NoneV)
    /\ vm_flow = Break(<<1, 2, 1>>)
    /\ Emitted = <<Ev("break", <<1, 2, 1>>), Ev("return", <<3>>)>>

----------------------------------------------------------------------------
C14_Message(kind) ==
    CASE kind = "Break" -> "cannot break outside of loop"
      [] kind = "Continue" -> "cannot continue outside of loop"
      [] kind = "Return" -> "cannot return outside of function"

C14_Step ==
    (stack = <<>> /\ ret.ok /\ vm_flow # NoFlow) =>
        /\ ret' = Err(vm_flow.span, <<C14_Message(vm_flow.kind)>>)
        /\ vm_flow' = vm_flow

C14_Reported ==
    (/\ stack = <<>>
     /\ ~HasLoop(prog)
     /\ Emitted # <<>>
     /\ ret.msg \in {<<C14_Message(k)>> : k \in {"Break", "Continue", "Return"}}) =>
        ret = Err(Emitted[1][2], <<C14_Message(SignalKind(Emitted[1][1]))>>)

(* C14: a signal that is pending when the program unit has been evaluated  *)
(* is reported by forbidden() at the span the signal carries, with the     *)
(* diagnostic of its kind ("cannot break outside of loop", "cannot         *)
(* continue outside of loop", "cannot return outside of function",         *)
(* whatever the returned value); so where no loop is around, the report is *)
(* at the span of the break, continue or return evaluated first.           *)
C14_Forbidden == []C14_Reported /\ [][C14_Step]_vars

(* f(break, return "r"): the break is reported at its own span.            *)
C14_Witness ==
    /\ stack = <<>>
    /\ prog.kind = "FuncCall"
    /\ ret = Err(<<2, 1>>, <<"cannot break outside of loop">>)
    /\ vm_flow = Break(<<2, 1>>)
    /\ Emitted = <<Ev("break", <<2, 1>>), Ev("return", <<2, 2>>)>>

----------------------------------------------------------------------------
(* The step returns the error r from the loop on top, with no further      *)
(* evaluation.                                                             *)
C15_Fails(r) ==
    /\ stack' = Below
    /\ ret' = r
    /\ log' = log

(* The items before the for loop on top when it is about to bind the next  *)
(* one: after the iterable has given a source, or after a pass that joined *)
(* and left no signal that stops the loop.                                 *)
C15_Ahead ==
    IF /\ Running("ForLoop", "iter")
       /\ ret.ok
       /\ C11_Source(Top, ret.val).ok
    THEN C11_Source(Top, ret.val).items
    ELSE IF /\ Running("ForLoop", "body")
            /\ ret.ok
            /\ join(Top.output, ret.val).ok
            /\ vm_flow.kind \in {"None", "Continue"}
    THEN Top.items
    ELSE <<>>

C15_Bind == destructure(vm_scopes, Top.node.ch[1], Head(C15_Ahead))

C15_Step ==
    /\ (Running("WhileLoop", "condition") /\ ~ret.ok) => C15_Fails(ret)
    /\ (Running("WhileLoop", "condition") /\ ret.ok /\ ret.val.ty # "bool") =>
            C15_Fails(Err(Append(Top.span, 1),
                          <<"expected boolean, found", ret.val.ty>>))
    /\ (Running("ForLoop", "iter") /\ ~ret.ok) => C15_Fails(ret)
    /\ (C15_Ahead # <<>> /\ ~C15_Bind.ok) =>
            C15_Fails(Err(Append(Top.span, 1), C15_Bind.msg))
    /\ (AfterBody /\ ~ret.ok) => C15_Fails(ret)
    /\ (AfterBody /\ ret.ok /\ ~join(Top.output, ret.val).ok) =>
            C15_Fails(Err(Append(Top.span, IF Top.node.kind = "ForLoop"
                                          THEN 3 ELSE 2),
                          join(Top.output, ret.val).msg))

(* C15: no failure is swallowed by a loop. When the condition (or the      *)
(* iterable) fails, the condition is not a boolean, the next item does not *)
(* bind to the pattern, the body fails or the body value does not join,    *)
(* the loop returns that error at once: no condition, bind or body of the  *)
(* loop follows.                                                           *)
C15_NoFailureSwallowed == [][C15_Step]_vars

(* `while x { 1 }`: the second body value did not join with the first and  *)
(* the loop has failed at the body's span after two passes.                *)
C15_Witness ==
    /\ stack = <<>>
    /\ prog.kind = "WhileLoop"
    /\ ret = Err(<<2>>, <<"cannot join", "int", "with", "int">>)
    /\ Cardinality(BodyRuns(<<>>)) = 2

----------------------------------------------------------------------------
ConditionRuns(span) == {k \in 1..Len(log) : log[k] = Ev("condition", span)}

C16_Active ==
    \E k \in 1..Len(stack) : stack[k].node.kind = "WhileLoop"

(* The step is the return of the while loop on top, in the terminal state  *)
(* named.                                                                  *)
C16_Completed ==
    Top.pc = "condition" /\ ret.ok /\ ret.val = FalseV /\ ret'.ok
C16_Broken == Top.pc = "body" /\ vm_flow.kind = "Break" /\ ret'.ok
C16_Returned == Top.pc = "body" /\ vm_flow.kind = "Return" /\ ret'.ok
C16_Aborted == ~ret'.ok

C16_Terminal ==
    (stack # <<>> /\ Top.node.kind = "WhileLoop" /\ stack' = Below) =>
        Cardinality({s \in {"completed", "break", "return", "aborted"} :
            \/ s = "completed" /\ C16_Completed
            \/ s = "break" /\ C16_Broken
            \/ s = "return" /\ C16_Returned
            \/ s = "aborted" /\ C16_Aborted}) = 1

C16_Bounded ==
    /\ \A k \in 1..Len(stack) :
          stack[k].node.kind = "WhileLoop" => stack[k].i <= MAX_ITERATIONS
    /\ prog.kind = "WhileLoop" =>
          /\ Cardinality(BodyRuns(<<>>)) <= MAX_ITERATIONS
          /\ Cardinality(ConditionRuns(<<>>)) <= MAX_ITERATIONS + 1

(* C16: every while-loop evaluation terminates. Whatever the condition and *)
(* the body evaluate to, a while loop that is running eventually returns,  *)
(* in exactly one of the terminal states completed normally (condition     *)
(* false), exited via break, exited via return, aborted with a diagnostic, *)
(* after at most MAX_ITERATIONS body evaluations and at most               *)
(* MAX_ITERATIONS + 1 condition evaluations.                               *)
C16_WhileTerminates ==
    /\ C16_Active ~> ~C16_Active
    /\ []C16_Bounded
    /\ [][C16_Terminal]_vars

(* `while x { .. }` has completed normally after MAX_ITERATIONS bodies and *)
(* MAX_ITERATIONS + 1 conditions, the last of them false.                  *)
C16_Witness ==
    /\ stack = <<>>
    /\ prog.kind = "WhileLoop"
    /\ ret.ok
    /\ Cardinality(BodyRuns(<<>>)) = MAX_ITERATIONS
    /\ Cardinality(ConditionRuns(<<>>)) = MAX_ITERATIONS + 1
    /\ log[Len(log)] = Ev("condition", <<>>)

----------------------------------------------------------------------------
IterRuns(span) == {k \in 1..Len(log) : log[k] = Ev("iter", span)}

LongArray(v) == v.ty = "array" /\ Len(v.v) > MAX_ITERATIONS

(* The for loop that is the program has an array of more than              *)
(* MAX_ITERATIONS items before it, and neither the iterable nor a body has *)
(* set a signal or failed so far.                                          *)
C17_Dispatching ==
    /\ Running("ForLoop", "iter")
    /\ Top.span = <<>>
    /\ ret.ok
    /\ LongArray(ret.val)
    /\ Emitted = <<>>

C17_AfterPass ==
    /\ Running("ForLoop", "body")
    /\ Top.span = <<>>
    /\ LongArray(Top.iter)
    /\ ret.ok
    /\ Emitted = <<>>

(* What the loop does then: it runs the body for the next item, or, with   *)
(* every item done, returns Ok after one evaluation of the iterable and    *)
(* one body evaluation per item.                                           *)
C17_GoesOn(iter, items) ==
    IF items # <<>> THEN CallsBody
    ELSE /\ stack' = Below
         /\ ret'.ok
         /\ Cardinality(IterRuns(<<>>)) = 1
         /\ Cardinality(BodyRuns(<<>>)) = Len(iter.v)

(* A for loop raises neither the cap nor the lint: it can only pass on     *)
(* such an error of its iterable or its body.                              *)
C17_NoCapNoLint ==
    (/\ stack # <<>>
     /\ Top.node.kind = "ForLoop"
     /\ stack' = Below
     /\ ret'.msg \in {<<"loop seems to be infinite">>,
                      <<"condition is always true">>}) => ret' = ret

C17_Binds(items) ==
    items # <<>> => destructure(vm_scopes, Top.node.ch[1], Head(items)).ok

----------------------------------------------------------------------------
IsPrefix(p, s) == Len(p) <= Len(s) /\ SubSeq(s, 1, Len(p)) = p

(* The span of the header of the loop f: the while loop's condition, the   *)
(* for loop's iterable.                                                    *)
Header(f) == Append(f.span, IF f.node.kind = "WhileLoop" THEN 1 ELSE 2)

(* The slot holds a signal set in the header of the loop on top.           *)
C18_FromHeader ==
    /\ stack # <<>>
    /\ IsLoop(Top)
    /\ vm_flow # NoFlow
    /\ IsPrefix(Header(Top), vm_flow.span)

(* A pass has ended that began with the header's signal in the slot; the   *)
(* body value joins.                                                       *)
C18_AfterPass ==
    /\ AfterBody
    /\ C18_FromHeader
    /\ ret.ok
    /\ join(Top.output, ret.val).ok

(* No break, continue or return was evaluated in the pass that has ended.  *)
C18_QuietBody ==
    \E k \in 1..Len(log) :
        /\ log[k] = Ev("body", Top.span)
        /\ \A j \in (k + 1)..Len(log) : ~IsEmit(log[j])

(* The loop goes on as after a pass without a signal.                      *)
C18_GoesOn ==
    IF Top.node.kind = "WhileLoop" THEN CallsChild(1)
    ELSE IF Top.items = <<>> THEN stack' = Below /\ ret'.ok
    ELSE CallsBody

(* C18, as stated: a signal set by the loop's header does not take part in *)
(* the loop's handling. After a pass in which the body evaluated no break, *)
(* continue or return, the loop goes on to its next pass as it does when   *)
(* the header has set no signal.                                           *)
C18_AsStated == [][(C18_AfterPass /\ C18_QuietBody) => C18_GoesOn]_vars

C18_Saved(flow) == IF Top.flow # NoFlow THEN Top.flow ELSE flow

C18_Step ==
    /\ (C18_FromHeader /\ Top.pc \in {"condition", "iter"} /\ CallsChild(
            IF Top.node.kind = "WhileLoop" THEN 2 ELSE 3)) =>
            vm_flow' = vm_flow
    /\ (C18_AfterPass /\ vm_flow.kind = "Break") =>
            /\ stack' = Below
            /\ ret' = Ok(join(Top.output, ret.val).val)
            /\ vm_flow' = C18_Saved(NoFlow)
    /\ (C18_AfterPass /\ vm_flow.kind = "Return") =>
            /\ stack' = Below
            /\ ret' = Ok(join(Top.output, ret.val).val)
            /\ vm_flow' = C18_Saved(vm_flow)
    /\ (C18_AfterPass /\ vm_flow.kind = "Continue") => C4_NextPass

(* C18, amended: the slot is emptied before the header is evaluated, so a  *)
(* signal set by the header takes part in the loop's handling like one set *)
(* by the body. It is in the slot while the first body runs; after that    *)
(* pass (the body value joining) a Break ends the loop and is cleared, a   *)
(* Return ends the loop and stays, a Continue is cleared and the loop goes *)
(* on. What the saved flow isolates the loop from is a signal that was     *)
(* pending before the loop was entered.                                    *)
C18_HeaderSignalTakesPart == [][C18_Step]_vars

(* `for v in f(break) { "a" }` over more than one item: the loop has ended *)
(* after one pass on the header's break, the slot empty.                   *)
C18_Witness ==
    /\ stack = <<>>
    /\ prog = ForLoop(Ident("v"), FuncCall(Ident("f"), <<LoopBreak>>),
                      StrL("a"))
    /\ ret = Ok(StrV(<<"a">>))
    /\ vm_flow = NoFlow
    /\ Emitted = <<Ev("break", <<2, 2, 1>>)>>
    /\ Cardinality(BodyRuns(<<>>)) = 1

----------------------------------------------------------------------------
RECURSIVE NodeAt(_, _)
NodeAt(node, path) ==
    IF path = <<>> THEN node ELSE NodeAt(node.ch[Head(path)], Tail(path))

BodyIndex(node) == IF node.kind = "WhileLoop" THEN 2 ELSE 3
BodySpan(f) == Append(f.span, BodyIndex(f.node))

(* The span lies in the body of a loop that is nested in the body of the   *)
(* loop f.                                                                 *)
InInnerBody(f, span) ==
    \E n \in (Len(f.span) + 1)..(Len(span) - 1) :
        LET inner == NodeAt(prog, SubSeq(span, 1, n))
        IN /\ IsPrefix(BodySpan(f), SubSeq(span, 1, n))
           /\ inner.kind \in {"WhileLoop", "ForLoop"}
           /\ span[n + 1] = BodyIndex(inner)

(* A break or continue of an inner body is in the slot when the body of    *)
(* the outer loop has returned.                                            *)
C19_Leaked ==
    /\ AfterBody
    /\ vm_flow.kind \in {"Break", "Continue"}
    /\ InInnerBody(Top, vm_flow.span)

(* In the pass of the outer loop that has ended, an inner body evaluated a *)
(* break or continue.                                                      *)
C19_InnerSignal ==
    /\ AfterBody
    /\ \E k \in 1..Len(log) :
          /\ log[k] = Ev("body", Top.span)
          /\ \A j \in (k + 1)..Len(log) : log[j] # Ev("body", Top.span)
          /\ \E j \in (k + 1)..Len(log) :
                /\ log[j][1] \in {"break", "continue"}
                /\ InInnerBody(Top, log[j][2])

(* C19, as stated: a break or continue evaluated in the body of an inner   *)
(* loop is never in the slot when the inner loop has returned to the outer *)
(* loop's body and that body to the outer loop.                            *)
C19_AsStated == [](~C19_Leaked)

(* C19, amended: break and continue do not leak across a loop boundary     *)
(* when the inner loop returns Ok. A break or continue evaluated in the    *)
(* body of an inner loop is not in the slot when the outer loop's body has *)
(* returned Ok, and with the slot empty and the body value joining the     *)
(* outer loop goes on to its next pass as after a body without a signal.   *)
(* (An inner loop that fails in the join of the pass leaves the signal in  *)
(* the slot and the outer loop fails with it.)                             *)
C19_NoLeakAcrossLoops ==
    /\ [](C19_Leaked => ~ret.ok)
    /\ [][(/\ C19_InnerSignal
            /\ ret.ok
            /\ join(Top.output, ret.val).ok
            /\ vm_flow = NoFlow) => C4_NextPass]_vars

(* `while x { for v in xs { break } }`: the outer loop has run two passes, *)
(* the inner loop has consumed a break in each, and the slot is empty.     *)
C19_Witness ==
    /\ stack = <<>>
    /\ prog = WhileLoop(Ident("x"),
                        ForLoop(Ident("v"), Ident("xs"), LoopBreak))
    /\ ret.ok
    /\ vm_flow = NoFlow
    /\ Cardinality(BodyRuns(<<>>)) = 2
    /\ Emitted = <<Ev("break", <<2, 3>>), Ev("break", <<2, 3>>)>>

----------------------------------------------------------------------------
(* The paths of a tree, each to one of its nodes.                          *)
RECURSIVE Paths(_)
Paths(node) ==
    {<<>>} \cup UNION {{<<k>> \o p : p \in Paths(node.ch[k])} :
                        k \in 1..Len(node.ch)}

(* The path never leaves a field access by anything but its target.        *)
C20_OutsideFieldName(tree, path) ==
    \A n \in 0..(Len(path) - 1) :
        NodeAt(tree, SubSeq(path, 1, n)).kind = "FieldAccess" =>
            path[n + 1] = 1

(* The tree holds no identifier outside a field name position.             *)
C20_NoIdentifier(tree) ==
    \A p \in Paths(tree) :
        NodeAt(tree, p).kind \in {"Ident", "MathIdent"} =>
            ~C20_OutsideFieldName(tree, p)

(* What the specification says of one node.                                *)
C20_Agrees(node) ==
    CASE node.kind \in {"Ident", "MathIdent"} -> ~is_invariant(node)
      [] node.kind = "FieldAccess" ->
            is_invariant(node) = is_invariant(node.ch[1])
      [] node.kind = "FuncCall" ->
            is_invariant(node) =
                (is_invariant(node.ch[1]) /\ is_invariant(node.ch[2]))
      [] OTHER ->
            is_invariant(node) =
                (\A k \in 1..Len(node.ch) : is_invariant(node.ch[k]))

(* C20: is_invariant on every syntax tree of bounded depth. It is false    *)
(* for an identifier and a math identifier, for a field access what it is  *)
(* for the target, for a function call true iff it is for the callee and   *)
(* for the argument list, for any other node true iff it is for all        *)
(* children (so true for a childless node); and its result for a tree is   *)
(* true iff the tree holds no identifier outside a field name position.    *)
C20_IsInvariant ==
    /\ \A p \in Paths(prog) : C20_Agrees(NodeAt(prog, p))
    /\ ret # NoRet => ret = Ok(BoolV(C20_NoIdentifier(prog)))

(* A call whose argument is a field access on a literal: the only          *)
(* identifier is the field name, and the call is invariant.                *)
C20_Witness ==
    /\ ret = Ok(TrueV)
    /\ prog.kind = "FuncCall"
    /\ \E p \in Paths(prog) :
          /\ NodeAt(prog, p).kind = "Ident"
          /\ Len(p) = 3

----------------------------------------------------------------------------
(* The node or one of its descendants is of one of the kinds.              *)
Holds(node, kinds) == \E p \in Paths(node) : NodeAt(node, p).kind \in kinds

C21_Agrees ==
    \A p \in Paths(prog) :
        can_diverge(NodeAt(prog, p)) =
            Holds(NodeAt(prog, p), {"Break", "Return"})

C21_Step ==
    (/\ ConditionTrue
     /\ is_invariant(Top.node.ch[1])
     /\ Holds(Top.node.ch[2], {"Continue"})
     /\ ~Holds(Top.node.ch[2], {"Break", "Return"})) =>
        /\ BodyRuns(Top.span) = {}
        /\ stack' = Below
        /\ ret' = Lint(Append(Top.span, 1))
        /\ log' = log

(* C21: can_diverge of a node is true iff the node or one of its           *)
(* descendants is a break or a return; a continue does not count. So a     *)
(* while loop with an invariant true condition whose body holds a continue *)
(* but no break or return fails with "condition is always true" and its    *)
(* body is not evaluated.                                                  *)
C21_CanDiverge == []C21_Agrees /\ [][C21_Step]_vars

(* `while true { "a"; continue }` has failed with the lint before any      *)
(* body evaluation.                                                        *)
C21_Witness ==
    /\ stack = <<>>
    /\ prog = WhileLoop(BoolL("true"), CodeBlock(<<StrL("a"), LoopContinue>>))
    /\ ~can_diverge(prog.ch[2])
    /\ ret = Lint(<<1>>)
    /\ log = <<Ev("condition", <<>>)>>

----------------------------------------------------------------------------
(* The while loop on top has an invariant condition and a body that holds  *)
(* a break or return.                                                      *)
C22_Guarded ==
    /\ stack # <<>>
    /\ Top.node.kind = "WhileLoop"
    /\ is_invariant(Top.node.ch[1])
    /\ Holds(Top.node.ch[2], {"Break", "Return"})

(* The lint lets the loop through, and the cap ends it after               *)
(* MAX_ITERATIONS bodies.                                                  *)
C22_Condition ==
    (C22_Guarded /\ ConditionTrue) =>
        IF Top.i < MAX_ITERATIONS THEN CallsChild(2)
        ELSE /\ stack' = Below
             /\ ret' = Infinite(Top.span)
             /\ Top.span = <<>> =>
                    Cardinality(BodyRuns(<<>>)) = MAX_ITERATIONS

(* A body evaluation has returned a value with no signal pending: no break *)
(* or return was executed, or a loop nested in the body has consumed it.   *)
C22_Unbroken ==
    C22_Guarded /\ Top.pc = "body" /\ ret.ok /\ vm_flow = NoFlow

(* The lint is raised at index 0 only, the cap at an index that is not 0.  *)
C22_OneDiagnostic ==
    (Running("WhileLoop", "condition") /\ ret.ok /\ stack' = Below) =>
        /\ ret' = Lint(Append(Top.span, 1)) => Top.i = 0
        /\ ret' = Infinite(Top.span) => Top.i = MAX_ITERATIONS /\ Top.i # 0

(* C22, as stated: a while loop with an invariant true condition whose     *)
(* body holds a break or return that is never executed, or is consumed by  *)
(* a loop nested in the body, passes the lint, goes from each body to the  *)
(* next condition, evaluates its body MAX_ITERATIONS times and then fails  *)
(* with "loop seems to be infinite"; the lint is raised at index 0 only    *)
(* and never together with the cap.                                        *)
C22_AsStated ==
    [][/\ C22_Condition
       /\ C22_Unbroken => CallsChild(1)
       /\ C22_OneDiagnostic]_vars

(* C22, amended: the same, for a loop whose body values join with the      *)
(* accumulated output.                                                     *)
C22_LintAndCap ==
    [][/\ C22_Condition
       /\ (C22_Unbroken /\ join(Top.output, ret.val).ok) => CallsChild(1)
       /\ C22_OneDiagnostic]_vars

(* `while true { for v in xs { break } }`: the inner loop has consumed a   *)
(* break in each pass of the outer loop, which has hit the cap after       *)
(* MAX_ITERATIONS bodies.                                                  *)
C22_Witness ==
    /\ stack = <<>>
    /\ prog = WhileLoop(BoolL("true"),
                        ForLoop(Ident("v"), Ident("xs"), LoopBreak))
    /\ ret = Infinite(<<>>)
    /\ Cardinality(BodyRuns(<<>>)) = MAX_ITERATIONS
    /\ Len(Emitted) = MAX_ITERATIONS

----------------------------------------------------------------------------
OperandRuns(span) == {k \in 1..Len(log) : log[k] = Ev("operand", span)}

C23_Returned(r, flow) ==
    /\ stack' = Below
    /\ ret' = r
    /\ vm_flow' = flow

C23_Step ==
    /\ (Running("FuncReturn", "start") /\ Len(Top.node.ch) > 1) =>
            /\ CallsChild(2)
            /\ vm_flow' = vm_flow
            /\ log' = Append(log, Ev("operand", Top.span))
    /\ (Running("FuncReturn", "start") /\ Len(Top.node.ch) = 1) =>
            C23_Returned(Ok(NoneV), IF vm_flow # NoFlow THEN vm_flow
                                    ELSE Return(Top.span, <<>>))
    /\ (Running("FuncReturn", "body") /\ ~ret.ok) =>
            C23_Returned(ret, vm_flow)
    /\ (Running("FuncReturn", "body") /\ ret.ok) =>
            C23_Returned(Ok(NoneV), IF vm_flow # NoFlow THEN vm_flow
                                    ELSE Return(Top.span, <<ret.val>>))

C23_Once ==
    (stack = <<>> /\ prog.kind = "FuncReturn" /\ Len(prog.ch) > 1) =>
        Cardinality(OperandRuns(<<>>)) = 1

(* C23: return evaluates its operand before it looks at the slot. The      *)
(* operand is evaluated once, whether or not a signal is pending; if it    *)
(* fails the error is returned and the slot is left alone; if a signal is  *)
(* pending after the operand (set before it or by it) the slot keeps that  *)
(* signal and the value is dropped; otherwise the slot becomes             *)
(* Return(span, value), or Return(span, none) without an operand.          *)
C23_OperandFirst == []C23_Once /\ [][C23_Step]_vars

(* f(break, return x): the operand was evaluated with the Break pending,   *)
(* gave a value, and the slot still holds the Break.                       *)
C23_Witness ==
    /\ stack # <<>>
    /\ Top.node.kind = "FuncCall"
    /\ prog = FuncCall(Ident("f"), <<LoopBreak, FuncReturnOf(Ident("x"))>>)
    /\ ret = Ok(NoneV)
    /\ vm_flow = Break(<<2, 1>>)
    /\ log[Len(log)] = Ev("return", <<2, 2>>)
    /\ Cardinality(OperandRuns(<<2, 2>>)) = 1

----------------------------------------------------------------------------
(* The step is the Ok return of a loop that was entered with an empty      *)
(* slot.                                                                   *)
C24_Exit ==
    /\ stack # <<>>
    /\ IsLoop(Top)
    /\ Top.pc # "start"
    /\ Top.flow = NoFlow
    /\ stack' = Below
    /\ ret'.ok

(* C24, as stated: a loop that starts with an empty slot and returns Ok    *)
(* leaves the slot empty or holding a Return, never a Break or Continue.   *)
C24_AsStated == [][C24_Exit => vm_flow'.kind \in {"None", "Return"}]_vars

C24_Step ==
    C24_Exit =>
        IF Top.pc = "body" THEN vm_flow'.kind \in {"None", "Return"}
        ELSE /\ vm_flow' = vm_flow
             /\ vm_flow # NoFlow => IsPrefix(Header(Top), vm_flow.span)

(* C24, amended: a loop that starts with an empty slot and returns Ok      *)
(* after a body leaves the slot empty or holding a Return: no Break or     *)
(* Continue of the body, or of the header before a pass that ran, remains. *)
(* A loop that returns Ok from its header (the condition that was false,   *)
(* the iterable that gave no item) leaves the slot as that evaluation of   *)
(* the header left it: empty, or holding the signal the header has set,    *)
(* which may be a Break or Continue.                                       *)
C24_LoopExitState == [][C24_Step]_vars

(* `while f(break) { .. }` with f false: no pass ran, the loop has         *)
(* returned Ok and the Break of the condition is in the slot.              *)
C24_Witness ==
    /\ stack = <<>>
    /\ prog.kind = "WhileLoop"
    /\ ret = Ok(NoneV)
    /\ vm_flow = Break(<<1, 2, 1>>)
    /\ BodyRuns(<<>>) = {}
    /\ Cardinality(ConditionRuns(<<>>)) = 1

----------------------------------------------------------------------------
(* The body of the while loop on top has returned a value and left a       *)
(* Continue in the slot.                                                   *)
C25_Continued ==
    /\ Running("WhileLoop", "body")
    /\ ret.ok
    /\ vm_flow.kind = "Continue"

(* The body has returned a value that joins, with the slot empty: a pass   *)
(* that does not end the loop.                                             *)
C25_Quiet ==
    /\ Running("WhileLoop", "body")
    /\ ret.ok
    /\ vm_flow = NoFlow
    /\ join(Top.output, ret.val).ok

(* The loop goes on to the next condition with the index advanced.         *)
C25_Counted ==
    /\ CallsChild(1)
    /\ Caller.pc = "condition"
    /\ Caller.i = Top.i + 1

(* The cap ends a loop whose condition may change, after MAX_ITERATIONS    *)
(* bodies; where every pass ended with Continue, after as many continues.  *)
C25_Capped ==
    (ConditionTrue /\ ~is_invariant(Top.node.ch[1])) =>
        IF Top.i < MAX_ITERATIONS THEN CallsChild(2)
        ELSE /\ stack' = Below
             /\ ret' = Infinite(Top.span)
             /\ Top.span = <<>> =>
                    Cardinality(BodyRuns(<<>>)) = MAX_ITERATIONS

(* C25, as stated: a body evaluation of a while loop that does not end the *)
(* loop advances the index whether the slot was empty or held Continue, so *)
(* a loop with a condition that is not invariant and always true whose     *)
(* body continues on every pass goes from pass to pass and fails with      *)
(* "loop seems to be infinite" after MAX_ITERATIONS body evaluations.      *)
C25_AsStated ==
    [][/\ (C25_Continued \/ C25_Quiet) => C25_Counted
       /\ C25_Capped]_vars

(* C25, amended: the same, where the value of each continuing pass joins   *)
(* with the accumulated output.                                            *)
C25_ContinueCounts ==
    [][/\ ((C25_Continued /\ join(Top.output, ret.val).ok) \/ C25_Quiet)
            => C25_Counted
       /\ C25_Capped]_vars

(* `while x { continue }` with x true every time: each pass has ended with *)
(* Continue, and the loop has hit the cap after MAX_ITERATIONS bodies.     *)
C25_Witness ==
    /\ stack = <<>>
    /\ prog = WhileLoop(Ident("x"), LoopContinue)
    /\ ret = Infinite(<<>>)
    /\ Cardinality(BodyRuns(<<>>)) = MAX_ITERATIONS
    /\ Len(Emitted) = MAX_ITERATIONS
    /\ vm_flow = NoFlow

====
